---- MODULE Spec2Model ----
(***************************************************************************)
(* DBLite (src/DBLite/Base.py): DataField, DataBase and the pickle files.  *)
(*                                                                         *)
(* Python objects are modelled on a heap.  A DataBase handle holds a       *)
(* reference to its list of fields; list 0 is the list object that is the  *)
(* default value of create's data_fileds_ parameter (built once, when the  *)
(* def statement runs), list i (i > 0) is the list object first owned by   *)
(* handle i.  A file holds the pickled token stream of a whole DataBase.   *)
(* Python values are tagged tokens <<tag, payload>>, so that 1, "1" and    *)
(* None are three different values.                                        *)
(*                                                                         *)
(* Spec    : runs from an empty program, any calls on up to MaxStores      *)
(*           handles; file objects are finalized when the call returns.    *)
(* SpecOne : runs on one DataBase created with a list of two DataFields.   *)
(* SpecGC  : runs where the file objects of create and pool are finalized  *)
(*           later, by the collector.                                      *)
(* SpecAlias : runs where the file a.dbl is also reached as ./a.dbl.        *)
(***************************************************************************)
EXTENDS Integers, Sequences, FiniteSets, TLC

\* ---------------------------------------------------------------- bounds
MaxStores  == 2      \* DataBase handles alive in one run
MaxId      == 1      \* randint(0, MaxId) stands for randint(0, 999999999999999)
MaxCalls   == 3      \* calls in one run

\* ---------------------------------------------------------------- values
None     == <<"none", 0>>
PyInt(n) == <<"int", n>>
PyStr(s) == <<"str", s>>
DataBaseObj == <<"obj", "DataBase">>     \* a value that is a DataBase instance

Paths      == {"a.dbl", "b.dbl"}
AliasPaths == {"./a.dbl"}                \* another string for the file a.dbl
Pins       == {None, PyInt(1234)}
WrongPins  == {PyInt(9999)}             \* pins no DataBase is created with
FieldNames == {"users", "products"}
Identifiers == {PyInt(1), PyStr("1")}
Objects    == {PyStr("Bob")}              \* the values the calls of a run add
Ids        == 0 .. MaxId

\* the file open(name_, ...) reaches: the string is kept as the caller
\* wrote it and resolved by the file system at every open
FileOf(name_) == IF name_ = "./a.dbl" THEN "a.dbl" ELSE name_

\* DataField.__init__: empty dict, the name, the given or random id
DataField(filed_name_, id_) == [name |-> filed_name_, id |-> id_, filed |-> <<>>]

\* ---------------------------------------------------------------- dict
\* the insertion-ordered dict DataField.__filed is a sequence of <<key, value>>

\* keys compared by their text, as if every identifier went through str()
KeyEqStr(a, b) ==
    LET text(k) == IF k[1] = "int" /\ k[2] = 1 THEN PyStr("1") ELSE k
    IN  text(a) = text(b)

\* key equality of the dict: same type and same value
KeyEq(a, b) == a = b

HasKey(d, k) == \E i \in 1 .. Len(d) : KeyEq(d[i][1], k)

KeyPos(d, k) == CHOOSE i \in 1 .. Len(d) : KeyEq(d[i][1], k)

\* d[k]
DictGet(d, k) == d[KeyPos(d, k)][2]

\* an assignment that moves an overwritten key to the end
DictSetMoving(d, k, v) ==
    Append(SelectSeq(d, LAMBDA e : ~KeyEq(e[1], k)), <<k, v>>)

\* d[k] = v : overwrite in place, or append
DictSet(d, k, v) ==
    IF HasKey(d, k)
    THEN [d EXCEPT ![KeyPos(d, k)] = <<d[KeyPos(d, k)][1], v>>]
    ELSE Append(d, <<k, v>>)

\* a del that drops the oldest entry, whatever its key
DictDelOldest(d, k) == Tail(d)

\* del d[k]
DictDel(d, k) ==
    LET p == KeyPos(d, k)
    IN  SubSeq(d, 1, p - 1) \o SubSeq(d, p + 1, Len(d))

\* ---------------------------------------------------------------- pickle
RECURSIVE DumpEntries(_)
DumpEntries(d) ==
    IF d = <<>> THEN <<>>
    ELSE <<d[1][1], d[1][2]>> \o DumpEntries(Tail(d))

\* a pickler that leaves the field's id out of the stream
DumpFieldNoId(f) ==
    <<<<"obj", "DataField">>, PyStr(f.name), PyInt(0), <<"dict", Len(f.filed)>>>>
        \o DumpEntries(f.filed)

DumpField(f) ==
    <<<<"obj", "DataField">>, PyStr(f.name), PyInt(f.id), <<"dict", Len(f.filed)>>>>
        \o DumpEntries(f.filed)

RECURSIVE DumpFields(_)
DumpFields(fs) ==
    IF fs = <<>> THEN <<>>
    ELSE DumpField(fs[1]) \o DumpFields(Tail(fs))

\* pickle.dump(db, file): the whole object graph as one token stream
Dump(db) ==
    <<DataBaseObj, PyStr(db.name), db.pin, <<"list", Len(db.fields)>>>>
        \o DumpFields(db.fields)

RECURSIVE LoadEntries(_, _, _)
LoadEntries(t, pos, n) ==
    IF n = 0 THEN <<>>
    ELSE <<<<t[pos], t[pos + 1]>>>> \o LoadEntries(t, pos + 2, n - 1)

LoadField(t, pos) ==
    [name |-> t[pos + 1][2], id |-> t[pos + 2][2],
     filed |-> LoadEntries(t, pos + 4, t[pos + 3][2])]

FieldSpan(t, pos) == 4 + 2 * t[pos + 3][2]

RECURSIVE LoadFields(_, _, _)
LoadFields(t, pos, n) ==
    IF n = 0 THEN <<>>
    ELSE <<LoadField(t, pos)>> \o LoadFields(t, pos + FieldSpan(t, pos), n - 1)

\* pickle.load(file)
Load(t) ==
    [name |-> t[2][2], pin |-> t[3], fields |-> LoadFields(t, 5, t[4][2])]

\* ---------------------------------------------------------------- state
VARIABLES
    stores,   \* the DataBase handles: <<[name, pin, fields (a list reference)]>>
    lists,    \* the heap of list objects: reference -> sequence of DataField
    files,    \* the file system: file -> pickled tokens (existing files only)
    res,      \* the last call: operation, handle, outcome, arguments, result
    calls,    \* number of calls made so far
    origin,   \* history: the handle each handle was copied from, 0 when none
    pending   \* the file objects opened for writing and not yet closed:
              \* <<[name, buf (the tokens written and not yet flushed)]>>

vars == <<stores, lists, files, res, calls, origin, pending>>

DefaultList == 0      \* the list bound to data_fileds_ at definition time

Result(op, h, kind, name, pin, idx, key, obj, ret) ==
    [op |-> op, h |-> h, kind |-> kind, name |-> name, pin |-> pin,
     idx |-> idx, key |-> key, obj |-> obj, ret |-> ret]

\* one more call, within the length of the runs explored
Tick == calls < MaxCalls /\ calls' = calls + 1

\* a call that returns a value or raises: nothing but the result changes
Returns(r) == Tick /\ res' = r /\ UNCHANGED <<stores, lists, files, origin, pending>>

Handles == 1 .. Len(stores)

\* the object graph reachable from handle h, as pickle and deepcopy see it
Graph(h) ==
    [name |-> stores[h].name, pin |-> stores[h].pin,
     fields |-> lists[stores[h].fields]]

\* open(name_, 'wb') ... pickle.dump(db, file); the file object is released
\* when the call returns, which closes and flushes it
WriteFile(fs, name_, db) ==
    [p \in (DOMAIN fs) \cup {FileOf(name_)} |-> IF p = FileOf(name_) THEN Dump(db) ELSE fs[p]]

Init ==
    /\ stores = <<>>
    /\ lists = [r \in 0 .. MaxStores |-> <<>>]
    /\ files = <<>>
    /\ res = Result("init", 0, "ok", "", None, 0, None, None, None)
    /\ calls = 0
    /\ origin = <<>>
    /\ pending = <<>>

\* ---------------------------------------------------------------- DataBase
\* the list object create binds to db.__fields when data_fileds_ is omitted
CreateList(h) == DefaultList

\* DataBase.create(name_, pin_): data_fileds_ omitted
Create(name_, pin_) ==
    /\ Tick
    /\ Len(stores) < MaxStores
    /\ LET h  == Len(stores) + 1
           r  == CreateList(h)
           db == [name |-> name_, pin |-> pin_, fields |-> lists[r]]
       IN  /\ stores' = Append(stores, [name |-> name_, pin |-> pin_, fields |-> r])
           /\ files' = WriteFile(files, name_, db)
           /\ res' = Result("create", h, "ok", name_, pin_, 0, None, None, None)
           /\ origin' = Append(origin, 0)
    /\ UNCHANGED <<lists, pending>>

\* DataBase.create(name_, pin_, data_fileds_) with a list the caller built
CreateWith(name_, pin_, data_fileds_) ==
    /\ Tick
    /\ Len(stores) < MaxStores
    /\ LET h  == Len(stores) + 1
           db == [name |-> name_, pin |-> pin_, fields |-> data_fileds_]
       IN  /\ stores' = Append(stores, [name |-> name_, pin |-> pin_, fields |-> h])
           /\ lists' = [lists EXCEPT ![h] = data_fileds_]
           /\ files' = WriteFile(files, name_, db)
           /\ res' = Result("create_with", h, "ok", name_, pin_, 0, None, None, None)
           /\ origin' = Append(origin, 0)
    /\ UNCHANGED pending

\* a pin check that lets everybody in when no pin is set
CheckPinOpen(db, pin_) == db.pin = None \/ db.pin = pin_

\* DataBase.__check_pin
CheckPin(db, pin_) == db.pin = pin_

\* a connect that reports every failure as a wrong pin
ConnectErrorPin(name_, pin_) ==
    IF FileOf(name_) \in DOMAIN files /\ CheckPin(Load(files[FileOf(name_)]), pin_)
    THEN /\ Tick
         /\ Len(stores) < MaxStores
         /\ LET db == Load(files[FileOf(name_)])
                h  == Len(stores) + 1
            IN  /\ stores' = Append(stores, [name |-> db.name, pin |-> db.pin, fields |-> h])
                /\ lists' = [lists EXCEPT ![h] = db.fields]
                /\ res' = Result("connect", h, "ok", name_, pin_, 0, None, None, None)
                /\ origin' = Append(origin, 0)
         /\ UNCHANGED <<files, pending>>
    ELSE Returns(Result("connect", 0, "ErrorPin", name_, pin_, 0, None, None, None))

\* DataBase.connect(name_, pin_)
Connect(name_, pin_) ==
    IF FileOf(name_) \notin DOMAIN files
    THEN Returns(Result("connect", 0, "ErrorDataBaseNotFound", name_, pin_, 0, None, None, None))
    ELSE LET db == Load(files[FileOf(name_)])
         IN  IF CheckPin(db, pin_)
             THEN /\ Tick
                  /\ Len(stores) < MaxStores
                  /\ LET h == Len(stores) + 1
                     IN  /\ stores' = Append(stores, [name |-> db.name, pin |-> db.pin, fields |-> h])
                         /\ lists' = [lists EXCEPT ![h] = db.fields]
                         /\ res' = Result("connect", h, "ok", name_, pin_, 0, None, None, None)
                         /\ origin' = Append(origin, 0)
                  /\ UNCHANGED <<files, pending>>
             ELSE Returns(Result("connect", 0, "ErrorPin", name_, pin_, 0, None, None, None))

\* 1 when the call before this one was a pool through the same handle
Repeated(h) == IF res.op = "pool" /\ res.h = h THEN 1 ELSE 0

\* a pool that opens the file with 'ab' and dumps at its end
PoolAppending(h) ==
    /\ Tick
    /\ files' = [files EXCEPT ![FileOf(stores[h].name)] = @ \o Dump(Graph(h))]
    /\ res' = Result("pool", h, "ok", stores[h].name, stores[h].pin, Repeated(h), None, None, None)
    /\ UNCHANGED <<stores, lists, origin, pending>>

\* a pool that keeps the fields the file holds and the handle does not
PoolMerging(h) ==
    LET mine   == Graph(h).fields
        theirs == Load(files[FileOf(stores[h].name)]).fields
        kept   == SelectSeq(theirs, LAMBDA f : \A i \in 1 .. Len(mine) : mine[i] # f)
    IN  /\ Tick
        /\ files' = WriteFile(files, stores[h].name, [Graph(h) EXCEPT !.fields = mine \o kept])
        /\ res' = Result("pool", h, "ok", stores[h].name, stores[h].pin, Repeated(h), None, None, None)
        /\ UNCHANGED <<stores, lists, origin, pending>>

\* DataBase.pool(); res.idx is 1 for a pool that follows a pool of the handle
Pool(h) ==
    /\ Tick
    /\ files' = WriteFile(files, stores[h].name, Graph(h))
    /\ res' = Result("pool", h, "ok", stores[h].name, stores[h].pin, Repeated(h), None, None, None)
    /\ UNCHANGED <<stores, lists, origin, pending>>

\* ---------------------------------------------------------------- DataField
\* DataField.check_field_name
check_field_name(f, field_name_) == f.name = field_name_

\* DataField.add after its isinstance guard: self.__filed[identifier_] = obj_
FieldAdded(f, identifier_, obj_) == [f EXCEPT !.filed = DictSet(f.filed, identifier_, obj_)]

\* DataField.remove: del self.__filed[identifier_]
FieldRemoved(f, identifier_) == [f EXCEPT !.filed = DictDel(f.filed, identifier_)]

\* DataField.get_idetifiers, DataField.get_objects, DataField.lenght
get_idetifiers(f) == [i \in 1 .. Len(f.filed) |-> f.filed[i][1]]

get_objects(f) == [i \in 1 .. Len(f.filed) |-> f.filed[i][2]]

lenght(f) == Len(f.filed)

\* a loop that keeps the last field whose name matches
LastMatch(fs, field_name_) ==
    IF \E i \in 1 .. Len(fs) : fs[i].name = field_name_
    THEN CHOOSE i \in 1 .. Len(fs) :
            /\ fs[i].name = field_name_
            /\ \A j \in i + 1 .. Len(fs) : fs[j].name # field_name_
    ELSE 0

\* the for loop of get_field and remove_field: position of the first field
\* whose name matches, 0 when the loop falls through
FirstMatch(fs, field_name_) ==
    IF \E i \in 1 .. Len(fs) : check_field_name(fs[i], field_name_)
    THEN CHOOSE i \in 1 .. Len(fs) :
            /\ check_field_name(fs[i], field_name_)
            /\ \A j \in 1 .. i - 1 : ~check_field_name(fs[j], field_name_)
    ELSE 0

\* DataBase.get_fileds, DataBase.get_fields_names
get_fileds(h) == lists[stores[h].fields]

get_fields_names(h) == [i \in 1 .. Len(get_fileds(h)) |-> get_fileds(h)[i].name]

FieldsOf(h) == 1 .. Len(get_fileds(h))

\* a DataField.add without the isinstance guard
DoFieldAddUnguarded(op, h, i, identifier_, obj_) ==
    LET r == stores[h].fields
        f == lists[r][i]
    IN  /\ Tick
        /\ lists' = [lists EXCEPT ![r][i] = FieldAdded(f, identifier_, obj_)]
        /\ res' = Result(op, h, "ok", f.name, None, i, identifier_, obj_, None)
        /\ UNCHANGED <<stores, files, origin, pending>>

\* the steps of DataField.add on the field at position i of handle h's list
DoFieldAdd(op, h, i, identifier_, obj_) ==
    LET r == stores[h].fields
        f == lists[r][i]
    IN  IF obj_ = DataBaseObj
        THEN Returns(Result(op, h, "ErrorObjectIsDataBase", f.name, None, i, None, obj_, None))
        ELSE /\ Tick
             /\ lists' = [lists EXCEPT ![r][i] = FieldAdded(f, identifier_, obj_)]
             /\ res' = Result(op, h, "ok", f.name, None, i, identifier_, obj_, None)
             /\ UNCHANGED <<stores, files, origin, pending>>

\* the steps of DataField.get on the field at position i of handle h's list
DoFieldGet(op, h, i, identifier_) ==
    LET f == get_fileds(h)[i]
    IN  IF HasKey(f.filed, identifier_)
        THEN Returns(Result(op, h, "ok", f.name, None, i, identifier_, None, DictGet(f.filed, identifier_)))
        ELSE Returns(Result(op, h, "ErrorIdentifierNotFound", f.name, None, i, identifier_, None, None))

\* DataField.add, on a field taken from get_fileds()
FieldAdd(h, i, identifier_, obj_) == DoFieldAdd("field.add", h, i, identifier_, obj_)

\* DataField.get, on a field taken from get_fileds()
FieldGet(h, i, identifier_) == DoFieldGet("field.get", h, i, identifier_)

\* DataField.remove, on a field taken from get_fileds()
FieldRemove(h, i, identifier_) ==
    LET r == stores[h].fields
        f == lists[r][i]
    IN  IF HasKey(f.filed, identifier_)
        THEN /\ Tick
             /\ lists' = [lists EXCEPT ![r][i] = FieldRemoved(f, identifier_)]
             /\ res' = Result("field.remove", h, "ok", f.name, None, i, identifier_, None, None)
             /\ UNCHANGED <<stores, files, origin, pending>>
        ELSE Returns(Result("field.remove", h, "ErrorIdentifierNotFound", f.name, None, i, identifier_, None, None))

\* randint(0, 999999999999999) with the old identity old: any value of the
\* range, the old one included
RandomIds(old) == Ids

\* DataField.new_id, on a field taken from get_fileds(); res.ret is the old id
NewId(h, i) ==
    LET r  == stores[h].fields
        f  == lists[r][i]
    IN  /\ Tick
        /\ \E id \in RandomIds(f.id) : lists' = [lists EXCEPT ![r][i].id = id]
        /\ res' = Result("new_id", h, "ok", f.name, None, i, None, None, PyInt(f.id))
        /\ UNCHANGED <<stores, files, origin, pending>>

\* ---------------------------------------------------------------- DataBase, fields
\* DataBase.get_field
GetField(h, field_name_) ==
    LET i == FirstMatch(get_fileds(h), field_name_)
    IN  Returns(Result("get_field", h, IF i = 0 THEN "ErrorFieldNotFound" ELSE "ok",
                       field_name_, None, i, None, None, None))

\* a get that looks in every field of the name for the identifier
GetInAny(h, field_name_, identifier_) ==
    LET fs   == get_fileds(h)
        hits == {i \in 1 .. Len(fs) :
                    fs[i].name = field_name_ /\ HasKey(fs[i].filed, identifier_)}
        i0   == FirstMatch(fs, field_name_)
    IN  IF i0 = 0
        THEN Returns(Result("get", h, "ErrorFieldNotFound", field_name_, None, 0, None, None, None))
        ELSE IF hits = {}
             THEN DoFieldGet("get", h, i0, identifier_)
             ELSE DoFieldGet("get", h, CHOOSE i \in hits : \A j \in hits : i <= j, identifier_)

\* DataBase.get
Get(h, field_name_, identifier_) ==
    LET i == FirstMatch(get_fileds(h), field_name_)
    IN  IF i = 0
        THEN Returns(Result("get", h, "ErrorFieldNotFound", field_name_, None, 0, None, None, None))
        ELSE DoFieldGet("get", h, i, identifier_)

\* an add that makes up an identifier when the caller omits it, as the
\* docstring of DataBase.add has it
AddAutoId(h, field_name_, obj_, identifier_) ==
    LET r == stores[h].fields
        i == FirstMatch(lists[r], field_name_)
    IN  IF i = 0
        THEN Returns(Result("add", h, "ErrorFieldNotFound", field_name_, None, 0, None, obj_, None))
        ELSE IF identifier_ # None \/ obj_ = DataBaseObj
             THEN DoFieldAdd("add", h, i, identifier_, obj_)
             ELSE /\ Tick
                  /\ lists' = [lists EXCEPT ![r][i] =
                         FieldAdded(lists[r][i], PyInt(100 + lenght(lists[r][i])), obj_)]
                  /\ res' = Result("add", h, "ok", field_name_, None, i, None, obj_, None)
                  /\ UNCHANGED <<stores, files, origin, pending>>

\* an add that makes the field when no field has the name
AddCreating(h, field_name_, obj_, identifier_) ==
    LET r == stores[h].fields
        i == FirstMatch(lists[r], field_name_)
    IN  IF i = 0
        THEN /\ Tick
             /\ lists' = [lists EXCEPT ![r] =
                    Append(lists[r], FieldAdded(DataField(field_name_, 0), identifier_, obj_))]
             /\ res' = Result("add", h, "ok", field_name_, None, Len(lists[r]) + 1, identifier_, obj_, None)
             /\ UNCHANGED <<stores, files, origin, pending>>
        ELSE DoFieldAdd("add", h, i, identifier_, obj_)

\* DataBase.add; identifier_ is None when the caller omits it
Add(h, field_name_, obj_, identifier_) ==
    LET i == FirstMatch(get_fileds(h), field_name_)
    IN  IF i = 0
        THEN Returns(Result("add", h, "ErrorFieldNotFound", field_name_, None, 0, None, obj_, None))
        ELSE DoFieldAdd("add", h, i, identifier_, obj_)

\* an add_field that saves the DataBase on its own
AddFieldSaving(h, field_name_) ==
    LET r == stores[h].fields
    IN  /\ Tick
        /\ \E id \in Ids :
              LET fs == Append(lists[r], DataField(field_name_, id))
              IN  /\ lists' = [lists EXCEPT ![r] = fs]
                  /\ files' = WriteFile(files, stores[h].name,
                                        [name |-> stores[h].name, pin |-> stores[h].pin, fields |-> fs])
        /\ res' = Result("add_field", h, "ok", field_name_, None, Len(lists[r]) + 1, None, None, None)
        /\ UNCHANGED <<stores, origin, pending>>

\* DataBase.add_field
AddField(h, field_name_) ==
    LET r == stores[h].fields
    IN  /\ Tick
        /\ \E id \in Ids :
              lists' = [lists EXCEPT ![r] = Append(lists[r], DataField(field_name_, id))]
        /\ res' = Result("add_field", h, "ok", field_name_, None, Len(lists[r]) + 1, None, None, None)
        /\ UNCHANGED <<stores, files, origin, pending>>

\* DataBase.remove_field
RemoveField(h, field_name_) ==
    LET r == stores[h].fields
        i == FirstMatch(lists[r], field_name_)
    IN  IF i = 0
        THEN Returns(Result("remove_field", h, "ErrorFieldNotFound", field_name_, None, 0, None, None, None))
        ELSE /\ Tick
             /\ lists' = [lists EXCEPT ![r] = SubSeq(lists[r], 1, i - 1) \o SubSeq(lists[r], i + 1, Len(lists[r]))]
             /\ res' = Result("remove_field", h, "ok", field_name_, None, i, None, None, None)
             /\ UNCHANGED <<stores, files, origin, pending>>

\* a copy that builds new DataField objects from the names only
ReKeyedEmpty(fs, ids) == [i \in 1 .. Len(fs) |-> DataField(fs[i].name, ids[i])]

\* for field in coped_fields: field.new_id()
ReKeyed(fs, ids) == [i \in 1 .. Len(fs) |-> [fs[i] EXCEPT !.id = ids[i]]]

\* the choices of the new_id calls of one copy, one per copied field
ReKeyChoices(fs) ==
    {ids \in [1 .. Len(fs) -> Ids] : \A i \in 1 .. Len(fs) : ids[i] \in RandomIds(fs[i].id)}

\* a copy without deepcopy: self.get_fileds() itself goes to create
CopedListShared(h, h2) == stores[h].fields

\* the list reference that copy hands to create: deepcopy(self).get_fileds()
\* is a list object of its own, first owned by the new handle h2
CopedList(h, h2) == h2

\* a copy that does not pool first
CopyNotPooled(h) == files

\* self.pool() at the head of copy
CopyPooled(h) == WriteFile(files, stores[h].name, Graph(h))

\* DataBase.copy(new_name_, new_pin_); res.idx is the source handle
Copy(h, new_name_, new_pin_) ==
    /\ Tick
    /\ Len(stores) < MaxStores
    /\ LET h2 == Len(stores) + 1
           r2 == CopedList(h, h2)
       IN  \E ids \in ReKeyChoices(get_fileds(h)) :
              LET coped_fields == ReKeyed(get_fileds(h), ids)
                  new_db == [name |-> new_name_, pin |-> new_pin_, fields |-> coped_fields]
              IN  /\ lists' = [lists EXCEPT ![r2] = coped_fields]
                  /\ stores' = Append(stores, [name |-> new_name_, pin |-> new_pin_, fields |-> r2])
                  /\ files' = WriteFile(CopyPooled(h), new_name_, new_db)
                  /\ res' = Result("copy", h2, "ok", new_name_, new_pin_, h, None, None, None)
                  /\ origin' = Append(origin, h)
    /\ UNCHANGED pending

\* ---------------------------------------------------------------- runs
\* the lists a caller builds for create: an empty list, or one new DataField
\* with an id of the caller's and one entry from a DataField.add
InitLists ==
    {<<>>, <<FieldAdded(DataField("users", 1), PyInt(1), PyStr("Alice"))>>}

Next ==
    \/ \E name_ \in Paths, pin_ \in Pins : Create(name_, pin_)
    \/ \E name_ \in Paths, pin_ \in Pins, fs \in InitLists : CreateWith(name_, pin_, fs)
    \/ \E name_ \in Paths, pin_ \in Pins \cup WrongPins : Connect(name_, pin_)
    \/ \E h \in Handles : Pool(h)
    \/ \E h \in Handles, n \in FieldNames : GetField(h, n)
    \/ \E h \in Handles, n \in FieldNames, k \in Identifiers : Get(h, n, k)
    \/ \E h \in Handles, n \in FieldNames, o \in Objects \cup {DataBaseObj},
          k \in Identifiers \cup {None} : Add(h, n, o, k)
    \/ \E h \in Handles, n \in FieldNames : AddField(h, n)
    \/ \E h \in Handles, n \in FieldNames : RemoveField(h, n)
    \/ \E h \in Handles, name_ \in Paths, pin_ \in Pins : Copy(h, name_, pin_)
    \/ \E h \in Handles : \E i \in FieldsOf(h), k \in Identifiers,
          o \in Objects \cup {DataBaseObj} : FieldAdd(h, i, k, o)
    \/ \E h \in Handles : \E i \in FieldsOf(h), k \in Identifiers : FieldGet(h, i, k)
    \/ \E h \in Handles : \E i \in FieldsOf(h), k \in Identifiers : FieldRemove(h, i, k)
    \/ \E h \in Handles : \E i \in FieldsOf(h) : NewId(h, i)

Spec == Init /\ [][Next]_vars

\* ---------------------------------------------------------------- runs on one DataBase
\* lists of two DataFields a caller builds for create: two fields of one name,
\* the second with an identifier the first does not have, and two fields of
\* different names
DupLists ==
    {<<FieldAdded(DataField("users", 1), PyInt(1), PyStr("Alice")),
       FieldAdded(DataField("users", 0), PyStr("1"), PyStr("Alice"))>>,
     <<FieldAdded(DataField("users", 1), PyInt(1), PyStr("Alice")),
       DataField("products", 0)>>}

\* one more value for the adds that omit the identifier
OmittedObjects == {PyStr("Carol")}

\* the state after h = DataBase.create("a.dbl", pin_, data_fileds_) with a
\* list of DupLists: one handle, its list, the file create wrote
InitOne ==
    /\ \E pin_ \in Pins, data_fileds_ \in DupLists :
          /\ stores = <<[name |-> "a.dbl", pin |-> pin_, fields |-> 1]>>
          /\ lists = [r \in 0 .. MaxStores |-> IF r = 1 THEN data_fileds_ ELSE <<>>]
          /\ files = WriteFile(<<>>, "a.dbl",
                               [name |-> "a.dbl", pin |-> pin_, fields |-> data_fileds_])
          /\ res = Result("create_with", 1, "ok", "a.dbl", pin_, 0, None, None, None)
    /\ calls = 0
    /\ origin = <<0>>
    /\ pending = <<>>

\* the calls on the fields and entries of the handles there are
NextOne ==
    \/ \E pin_ \in Pins \cup WrongPins : Connect("a.dbl", pin_)
    \/ \E h \in Handles : Pool(h)
    \/ \E h \in Handles, n \in FieldNames : GetField(h, n)
    \/ \E h \in Handles, n \in FieldNames, k \in Identifiers : Get(h, n, k)
    \/ \E h \in Handles, n \in FieldNames, o \in Objects \cup {DataBaseObj},
          k \in Identifiers : Add(h, n, o, k)
    \/ \E h \in Handles, n \in FieldNames, o \in Objects \cup OmittedObjects :
          Add(h, n, o, None)
    \/ \E h \in Handles, n \in FieldNames : AddField(h, n)
    \/ \E h \in Handles, n \in FieldNames : RemoveField(h, n)
    \/ \E h \in Handles : \E i \in FieldsOf(h), k \in Identifiers,
          o \in Objects \cup {DataBaseObj} : FieldAdd(h, i, k, o)
    \/ \E h \in Handles : \E i \in FieldsOf(h), k \in Identifiers : FieldGet(h, i, k)
    \/ \E h \in Handles : \E i \in FieldsOf(h), k \in Identifiers : FieldRemove(h, i, k)
    \/ \E h \in Handles : \E i \in FieldsOf(h) : NewId(h, i)

SpecOne == InitOne /\ [][NextOne]_vars

\* ---------------------------------------------------------------- runs, file objects
\* create and pool open the file, dump into it and return: no close, no flush,
\* no with.  The file object is closed, and its buffer flushed, when the
\* interpreter finalizes it: at the return under reference counting (what
\* WriteFile does), at some later moment under a tracing collector.  These
\* are the runs where it is later; the snapshots are smaller than the buffer,
\* so nothing reaches the file before the flush.

\* open(name_, 'wb'): the file is made, or cut to nothing
OpenWB(fs, name_) ==
    [p \in (DOMAIN fs) \cup {FileOf(name_)} |-> IF p = FileOf(name_) THEN <<>> ELSE fs[p]]

\* the flush of a buffer written from position 0 of the file
Flushed(fs, name_, buf) ==
    [fs EXCEPT ![FileOf(name_)] = buf \o SubSeq(@, Len(buf) + 1, Len(@))]

\* DataBase.create(name_, pin_), the file object left to the collector
CreateGC(name_, pin_) ==
    /\ Tick
    /\ Len(stores) < MaxStores
    /\ LET h  == Len(stores) + 1
           r  == CreateList(h)
           db == [name |-> name_, pin |-> pin_, fields |-> lists[r]]
       IN  /\ stores' = Append(stores, [name |-> name_, pin |-> pin_, fields |-> r])
           /\ files' = OpenWB(files, name_)
           /\ pending' = Append(pending, [name |-> name_, buf |-> Dump(db)])
           /\ res' = Result("create", h, "ok", name_, pin_, 0, None, None, None)
           /\ origin' = Append(origin, 0)
    /\ UNCHANGED lists

\* DataBase.create(name_, pin_, data_fileds_), the file object left to the collector
CreateWithGC(name_, pin_, data_fileds_) ==
    /\ Tick
    /\ Len(stores) < MaxStores
    /\ LET h  == Len(stores) + 1
           db == [name |-> name_, pin |-> pin_, fields |-> data_fileds_]
       IN  /\ stores' = Append(stores, [name |-> name_, pin |-> pin_, fields |-> h])
           /\ lists' = [lists EXCEPT ![h] = data_fileds_]
           /\ files' = OpenWB(files, name_)
           /\ pending' = Append(pending, [name |-> name_, buf |-> Dump(db)])
           /\ res' = Result("create_with", h, "ok", name_, pin_, 0, None, None, None)
           /\ origin' = Append(origin, 0)

\* DataBase.pool(), the file object left to the collector
PoolGC(h) ==
    /\ Tick
    /\ files' = OpenWB(files, stores[h].name)
    /\ pending' = Append(pending, [name |-> stores[h].name, buf |-> Dump(Graph(h))])
    /\ res' = Result("pool", h, "ok", stores[h].name, stores[h].pin, Repeated(h), None, None, None)
    /\ UNCHANGED <<stores, lists, origin>>

\* the collector finalizes the i-th file object: its buffer is flushed and
\* the file closed; no call of the program is involved
Finalize(i) ==
    /\ files' = Flushed(files, pending[i].name, pending[i].buf)
    /\ pending' = SubSeq(pending, 1, i - 1) \o SubSeq(pending, i + 1, Len(pending))
    /\ UNCHANGED <<stores, lists, res, calls, origin>>

\* DataBase.connect(name_, pin_): pickle.load raises EOFError on a file
\* that holds nothing
ConnectGC(name_, pin_) ==
    IF FileOf(name_) \in DOMAIN files /\ files[FileOf(name_)] = <<>>
    THEN Returns(Result("connect", 0, "EOFError", name_, pin_, 0, None, None, None))
    ELSE Connect(name_, pin_)

NextGC ==
    \/ \E name_ \in Paths, pin_ \in Pins : CreateGC(name_, pin_)
    \/ \E name_ \in Paths, pin_ \in Pins, fs \in InitLists : CreateWithGC(name_, pin_, fs)
    \/ \E h \in Handles : PoolGC(h)
    \/ \E i \in 1 .. Len(pending) : Finalize(i)
    \/ \E name_ \in Paths, pin_ \in Pins \cup WrongPins : ConnectGC(name_, pin_)
    \/ \E h \in Handles, n \in FieldNames : AddField(h, n)

SpecGC == Init /\ [][NextGC]_vars

\* ---------------------------------------------------------------- runs, two strings for one file
\* the path strings of a run: those of Paths, and another string for a.dbl
AllPaths == Paths \cup AliasPaths

NextAlias ==
    \/ \E name_ \in AllPaths, pin_ \in Pins : Create(name_, pin_)
    \/ \E name_ \in AllPaths, pin_ \in Pins \cup WrongPins : Connect(name_, pin_)
    \/ \E h \in Handles : Pool(h)
    \/ \E h \in Handles, n \in FieldNames : AddField(h, n)
    \/ \E h \in Handles, name_ \in AllPaths, pin_ \in Pins : Copy(h, name_, pin_)

SpecAlias == Init /\ [][NextAlias]_vars

\* ---------------------------------------------------------------- properties
\* the calls that change fields or entries in memory
MutatingOps == {"add_field", "remove_field", "add", "field.add", "field.remove"}

\* the entries of every field of a list, without the ids
Content(fs) == [i \in 1 .. Len(fs) |-> [name |-> fs[i].name, filed |-> fs[i].filed]]

\* C1: a connect made right after create or pool returned, with the path and
\* the pin of the DataBase written, returns a DataBase with the same path,
\* pin, fields, ids and entries, all in the same order
C1_RoundTrip ==
    [][(/\ res.op \in {"create", "create_with", "pool"}
        /\ res'.op = "connect"
        /\ res'.name = stores[res.h].name
        /\ res'.pin = stores[res.h].pin)
       => (/\ res'.kind = "ok"
           /\ Graph(res.h)' = Graph(res.h))]_vars

C1_Witness ==
    /\ res.op = "connect" /\ res.kind = "ok" /\ res.pin # None
    /\ \E h \in Handles \ {res.h} : Graph(h) = Graph(res.h)
    /\ \E i \in FieldsOf(res.h) : get_fileds(res.h)[i].filed # <<>>
    /\ \E i \in FieldsOf(res.h) : get_fileds(res.h)[i].id # 0

C3_CreateEmpty ==
    (res.op = "create" /\ res.kind = "ok") =>
        /\ get_fields_names(res.h) = <<>>
        /\ Load(files[res.name]).fields = <<>>

\* C4: a call that changes fields or entries through one handle leaves the
\* fields and entries of every other handle as they were
C4_ExclusiveFields ==
    [][\A g \in Handles :
          (res'.op \in MutatingOps /\ res'.kind = "ok" /\ res'.h # g)
              => get_fileds(g)' = get_fileds(g)]_vars

\* the values a dict holds under exactly the key k
ValuesAt(d, k) == {d[i][2] : i \in {j \in 1 .. Len(d) : d[j][1] = k}}

AllKeys == Identifiers \cup {None}

\* C5: after add(identifier, value) the field holds exactly that value under
\* the identifier, also when it held another one, every other identifier holds
\* what it held, and a get with the identifier that follows returns the value
C5_AddThenGet ==
    [][/\ (res'.op \in {"add", "field.add"} /\ res'.kind = "ok") =>
            LET old == get_fileds(res'.h)[res'.idx].filed
                new == (get_fileds(res.h)[res.idx].filed)'
            IN  /\ ValuesAt(new, res'.key) = {res'.obj}
                /\ \A k \in AllKeys \ {res'.key} : ValuesAt(new, k) = ValuesAt(old, k)
       /\ (/\ res.op \in {"add", "field.add"} /\ res.kind = "ok"
           /\ res'.op \in {"get", "field.get"}
           /\ res'.h = res.h /\ res'.idx = res.idx /\ res'.key = res.key)
            => (res'.kind = "ok" /\ res'.ret = res.obj)]_vars

\* an add that overwrote the first of two entries
C5_Witness ==
    /\ res.op \in {"add", "field.add"} /\ res.kind = "ok"
    /\ LET d == get_fileds(res.h)[res.idx].filed
       IN  /\ Len(d) = 2
           /\ d[1] = <<res.key, res.obj>>
           /\ {d[1][1], d[2][1]} = Identifiers

\* C6: add_field, remove_field, add and the removal of an entry leave every
\* file as it is, and connect returns what the file holds
C6_NoDurability ==
    [][/\ (res'.op \in MutatingOps) => files' = files
       /\ (res'.op = "connect" /\ res'.kind = "ok") =>
            (files' = files /\ Graph(res.h)' = Load(files[res'.name]))]_vars

\* a connect that returned less than a handle of the same path holds in memory
C6_Witness ==
    /\ res.op = "connect" /\ res.kind = "ok"
    /\ \E h \in Handles \ {res.h} :
          /\ stores[h].name = res.name
          /\ Len(get_fileds(h)) > Len(get_fileds(res.h))

\* C7: the DataBase copy returns has the new path and pin, as many fields as
\* the source, each with the name and the entries of the source field at its
\* position, and the file at the new path holds that DataBase
C7_CopyContent ==
    res.op = "copy" =>
        /\ stores[res.h].name = res.name
        /\ stores[res.h].pin = res.pin
        /\ Len(get_fileds(res.h)) = Len(get_fileds(res.idx))
        /\ Content(get_fileds(res.h)) = Content(get_fileds(res.idx))
        /\ res.name \in DOMAIN files
        /\ Load(files[res.name]) = Graph(res.h)

C7_Witness ==
    /\ res.op = "copy"
    /\ \E i \in FieldsOf(res.h) : Len(get_fileds(res.h)[i].filed) = 2
    /\ stores[res.h].pin # stores[res.idx].pin

\* C8: a call that changes fields or entries through a copy leaves the fields
\* and entries of its source and every file as they were, and so does a call
\* through the source for the copy
C8_CopyIndependent ==
    [][\A c \in Handles :
          (origin[c] # 0 /\ res'.op \in MutatingOps /\ res'.kind = "ok") =>
              /\ res'.h = c =>
                    (get_fileds(origin[c])' = get_fileds(origin[c]) /\ files' = files)
              /\ res'.h = origin[c] =>
                    (get_fileds(c)' = get_fileds(c) /\ files' = files)]_vars

\* an entry added through a copy that its source does not have
C8_Witness ==
    /\ res.op \in {"add", "field.add"} /\ res.kind = "ok"
    /\ origin[res.h] # 0
    /\ res.idx \in FieldsOf(origin[res.h])
    /\ get_fileds(origin[res.h])[res.idx].filed # <<>>
    /\ ValuesAt(get_fileds(origin[res.h])[res.idx].filed, res.key) # {res.obj}

\* C9, as claimed: copy leaves the source's path, pin, fields, ids and entries
\* as they were, and the file at the source's path holds exactly the source
C9_CopyPersistsSource ==
    [][res'.op = "copy" =>
          /\ Graph(res.idx)' = Graph(res'.idx)
          /\ Load(files'[stores[res'.idx].name]) = Graph(res'.idx)]_vars

\* C9, amended: the file at the source's path holds the source when the new
\* path is another path; when it is the source's own path, create overwrites
\* the file and it holds the copy
C9_CopyPersistsSourceOtherPath ==
    [][res'.op = "copy" =>
          /\ Graph(res.idx)' = Graph(res'.idx)
          /\ res'.name # stores[res'.idx].name =>
                Load(files'[stores[res'.idx].name]) = Graph(res'.idx)
          /\ res'.name = stores[res'.idx].name =>
                Load(files'[stores[res'.idx].name]) = Graph(res.h)']_vars

\* a copy to another path of a source that has an entry
C9_Witness ==
    /\ res.op = "copy"
    /\ res.name # stores[res.idx].name
    /\ \E i \in FieldsOf(res.idx) : get_fileds(res.idx)[i].filed # <<>>
    /\ Load(files[stores[res.idx].name]) = Graph(res.idx)

\* C10: every field of a copy has an id other than the id of the field it was
\* copied from, and new_id leaves a field with an id other than the old one
C10_ReKeyed ==
    /\ res.op = "copy" =>
          \A i \in FieldsOf(res.h) : get_fileds(res.h)[i].id # get_fileds(res.idx)[i].id
    /\ res.op = "new_id" => PyInt(get_fileds(res.h)[res.idx].id) # res.ret

\* C11: with several fields of one name, get_field returns the earliest of
\* them, and remove_field removes exactly that one: every other field, the
\* later ones of the same name included, keeps its entries and its place
\* among the others
C11_FirstMatch ==
    [][(res'.op \in {"get_field", "remove_field"} /\ res'.kind = "ok") =>
          LET old == get_fileds(res'.h)
              new == get_fileds(res.h)'
              p   == res'.idx
          IN  /\ p \in 1 .. Len(old)
              /\ old[p].name = res'.name
              /\ \A j \in 1 .. p - 1 : old[j].name # res'.name
              /\ res'.op = "get_field" => new = old
              /\ res'.op = "remove_field" =>
                    /\ Len(new) = Len(old) - 1
                    /\ \A j \in 1 .. p - 1 : new[j] = old[j]
                    /\ \A j \in p .. Len(new) : new[j] = old[j + 1]]_vars

\* a remove_field that left a later field of the same name, with its entry
C11_Witness ==
    /\ res.op = "remove_field" /\ res.kind = "ok" /\ res.idx = 1
    /\ \E j \in FieldsOf(res.h) :
          /\ get_fileds(res.h)[j].name = res.name
          /\ get_fileds(res.h)[j].filed = <<<<PyStr("1"), PyStr("Alice")>>>>

\* the calls that write a file
WritingOps == {"create", "create_with", "pool", "copy"}

\* C12: with several handles of one path, pool replaces the whole file at
\* the path with the snapshot of the handle it is called on, whatever the
\* file held and whatever the other handles hold, and touches no other file;
\* between two writes the file stays as the last writer left it
C12_LastWriteWins ==
    [][/\ res'.op = "pool" =>
            /\ DOMAIN files' = DOMAIN files
            /\ files'[res'.name] = Dump(Graph(res'.h))
            /\ Load(files'[res'.name]) = Graph(res'.h)
            /\ \A p \in DOMAIN files \ {res'.name} : files'[p] = files[p]
       /\ res'.op \notin WritingOps => files' = files]_vars

\* a pool through the older of two handles of one path: the file holds its
\* empty snapshot, none of the fields the younger handle holds
C12_Witness ==
    /\ res.op = "pool"
    /\ get_fileds(res.h) = <<>>
    /\ Load(files[res.name]).fields = <<>>
    /\ \E g \in Handles :
          /\ g > res.h
          /\ stores[g].name = res.name
          /\ get_fileds(g) # <<>>

\* no entry of any field of any list is a DataBase
NoDataBaseEntry(ls) ==
    \A r \in DOMAIN ls : \A i \in 1 .. Len(ls[r]) :
        \A j \in 1 .. Len(ls[r][i].filed) : ls[r][i].filed[j][2] # DataBaseObj

\* C13, as claimed: DataField.add and DataBase.add with a value that is a
\* DataBase raise ErrorObjectIsDataBase and leave the entries as they were,
\* and no entry of a field is ever a DataBase
C13_NestingGuard ==
    [][/\ (res'.op \in {"add", "field.add"} /\ res'.obj = DataBaseObj) =>
            (res'.kind = "ErrorObjectIsDataBase" /\ lists' = lists)
       /\ NoDataBaseEntry(lists')]_vars

\* C13, amended: DataBase.add raises ErrorObjectIsDataBase when a field of
\* the name exists, and ErrorFieldNotFound before it looks at the value when
\* none does; in both cases, and for DataField.add, the entries stay as they
\* were and no entry of a field is ever a DataBase
C13_NestingGuardOnField ==
    [][/\ (res'.op \in {"add", "field.add"} /\ res'.obj = DataBaseObj) =>
            /\ lists' = lists /\ files' = files
            /\ res'.kind =
                  IF res'.op = "field.add"
                        \/ \E i \in FieldsOf(res'.h) : get_fileds(res'.h)[i].name = res'.name
                  THEN "ErrorObjectIsDataBase" ELSE "ErrorFieldNotFound"
       /\ NoDataBaseEntry(lists')]_vars

\* a DataBase.add of a DataBase refused by a field that has an entry
C13_Witness ==
    /\ res.op = "add" /\ res.kind = "ErrorObjectIsDataBase" /\ res.obj = DataBaseObj
    /\ get_fileds(res.h)[res.idx].filed # <<>>

\* the calls that look an identifier up in one field
LookupOps == {"get", "field.get", "field.remove"}

\* C14: DataField.get and DataField.remove with an identifier the field does
\* not hold raise ErrorIdentifierNotFound and change nothing; a remove that
\* succeeds takes out that identifier alone, a get or a second remove of it
\* that follows raises ErrorIdentifierNotFound, and a get of an identifier
\* the field holds returns its value
C14_AbsentIdentifier ==
    [][/\ (res'.op \in LookupOps /\ res'.idx # 0) =>
            LET old == get_fileds(res'.h)[res'.idx].filed
            IN  IF ValuesAt(old, res'.key) = {}
                THEN /\ res'.kind = "ErrorIdentifierNotFound"
                     /\ lists' = lists /\ files' = files
                ELSE /\ res'.kind = "ok"
                     /\ res'.op # "field.remove" =>
                           (ValuesAt(old, res'.key) = {res'.ret} /\ lists' = lists)
                     /\ res'.op = "field.remove" =>
                           LET new == (get_fileds(res.h)[res.idx].filed)'
                           IN  /\ ValuesAt(new, res'.key) = {}
                               /\ Len(new) = Len(old) - 1
                               /\ \A k \in AllKeys \ {res'.key} :
                                      ValuesAt(new, k) = ValuesAt(old, k)
       /\ (/\ res.op = "field.remove" /\ res.kind = "ok"
           /\ res'.op \in LookupOps
           /\ res'.h = res.h /\ res'.idx = res.idx /\ res'.key = res.key)
            => res'.kind = "ErrorIdentifierNotFound"]_vars

\* after an add of "1" and a remove of 1 on the field that held 1: a get or a
\* second remove of 1 that failed, the entry under "1" still there
C14_Witness ==
    /\ res.op \in {"field.get", "field.remove"} /\ res.kind = "ErrorIdentifierNotFound"
    /\ res.key = PyInt(1) /\ res.idx = 1 /\ calls = 3
    /\ Len(get_fileds(res.h)) = 2
    /\ get_fileds(res.h)[2].name = "products"
    /\ get_fileds(res.h)[1].filed = <<<<PyStr("1"), PyStr("Bob")>>>>

\* the calls that find a field by its name
ByNameOps == {"get_field", "remove_field", "get", "add"}

\* C15: get_field, remove_field, DataBase.get and DataBase.add raise
\* ErrorFieldNotFound exactly when no field of the DataBase has the name, and
\* then the handles, the fields, their entries and the files stay as they were
C15_AbsentField ==
    [][(res'.op \in ByNameOps) =>
          LET absent == \A i \in FieldsOf(res'.h) : get_fileds(res'.h)[i].name # res'.name
          IN  /\ absent <=> res'.kind = "ErrorFieldNotFound"
              /\ absent => (stores' = stores /\ lists' = lists /\ files' = files)]_vars

\* an add that failed on a DataBase that has a field with an entry
C15_Witness ==
    /\ res.op = "add" /\ res.kind = "ErrorFieldNotFound" /\ res.obj = PyStr("Bob")
    /\ \E i \in FieldsOf(res.h) : get_fileds(res.h)[i].filed # <<>>

\* C16: when create or pool has returned, the file at the path holds the
\* whole snapshot of the DataBase and no file object is left open with an
\* unflushed buffer; a connect never finds an empty file
C16_FlushedAtReturn ==
    /\ res.op \in {"create", "create_with", "pool"} =>
          /\ pending = <<>>
          /\ files[res.name] = Dump(Graph(res.h))
    /\ res.op = "connect" => res.kind # "EOFError"

\* C17: the fields of one DataBase have ids that differ from one another
C17_UniqueIds ==
    \A h \in Handles : \A i, j \in FieldsOf(h) :
        i # j => get_fileds(h)[i].id # get_fileds(h)[j].id

\* C18: pool leaves the handles, the fields, the ids and the entries in
\* memory as they were and the file holding the DataBase; a second pool
\* right after the first leaves the file as the first left it; a connect
\* right after either of them, with the path and the pin of the DataBase,
\* returns a DataBase equal to the one in memory
C18_PoolIdempotent ==
    [][/\ res'.op = "pool" =>
            /\ stores' = stores /\ lists' = lists
            /\ Load(files'[res'.name]) = Graph(res'.h)
            /\ (res.op = "pool" /\ res.h = res'.h) => files' = files
       /\ (/\ res.op = "pool" /\ res'.op = "connect"
           /\ res'.name = res.name /\ res'.pin = res.pin)
            => (res'.kind = "ok" /\ Graph(res.h)' = Graph(res.h))]_vars

\* the second of two pools in a row, after a call that changed the DataBase
\* create wrote: the file holds the DataBase in memory
C18_Witness ==
    /\ res.op = "pool" /\ res.idx = 1
    /\ get_fileds(res.h) \notin DupLists
    /\ Load(files[res.name]) = Graph(res.h)

\* C19: connect with a path no file is at raises ErrorDataBaseNotFound,
\* whatever the pin, makes no file and changes no DataBase; it raises
\* ErrorDataBaseNotFound in no other case, and ErrorPin only when the file
\* is there and holds another pin
C19_DataBaseNotFound ==
    [][res'.op = "connect" =>
          /\ res'.name \notin DOMAIN files <=> res'.kind = "ErrorDataBaseNotFound"
          /\ res'.name \notin DOMAIN files =>
                (files' = files /\ stores' = stores /\ lists' = lists /\ res'.h = 0)
          /\ res'.kind = "ErrorPin" =>
                (res'.name \in DOMAIN files /\ Load(files[res'.name]).pin # res'.pin)]_vars

\* a connect that failed on a path without a file, with a pin that the file
\* at the other path holds
C19_Witness ==
    /\ res.op = "connect" /\ res.kind = "ErrorDataBaseNotFound"
    /\ res.pin = PyInt(1234)
    /\ res.name \notin DOMAIN files
    /\ \E p \in DOMAIN files : Load(files[p]).pin = res.pin

\* C20: DataBase.get and DataBase.add act on the first field of the name and
\* on no other: get returns what get of that field returns, its value or
\* ErrorIdentifierNotFound, whatever the later fields of the name hold, and
\* add sets the entry in that field and leaves every other field as it was
C20_FirstFieldOnly ==
    [][(res'.op \in {"get", "add"} /\ res'.kind # "ErrorFieldNotFound") =>
          LET old == get_fileds(res'.h)
              new == get_fileds(res.h)'
              p   == res'.idx
          IN  /\ p \in 1 .. Len(old)
              /\ old[p].name = res'.name
              /\ \A j \in 1 .. p - 1 : old[j].name # res'.name
              /\ res'.op = "get" =>
                    /\ new = old
                    /\ IF ValuesAt(old[p].filed, res'.key) = {}
                       THEN res'.kind = "ErrorIdentifierNotFound"
                       ELSE res'.kind = "ok" /\ ValuesAt(old[p].filed, res'.key) = {res'.ret}
              /\ res'.op = "add" =>
                    /\ Len(new) = Len(old)
                    /\ \A j \in 1 .. Len(old) : j # p => new[j] = old[j]
                    /\ res'.kind = "ok" => ValuesAt(new[p].filed, res'.key) = {res'.obj}
                    /\ res'.kind # "ok" => new[p] = old[p]]_vars

\* a get that failed for an identifier that a later field of the name holds
C20_Witness ==
    /\ res.op = "get" /\ res.kind = "ErrorIdentifierNotFound"
    /\ \E j \in FieldsOf(res.h) :
          /\ j > res.idx
          /\ get_fileds(res.h)[j].name = res.name
          /\ ValuesAt(get_fileds(res.h)[j].filed, res.key) # {}

\* get_idetifiers, get_objects and lenght of one field agree: same length,
\* no identifier twice, each value the one get returns for its identifier
Aligned(f) ==
    LET ids  == get_idetifiers(f)
        objs == get_objects(f)
    IN  /\ Len(ids) = lenght(f) /\ Len(objs) = lenght(f)
        /\ \A i, j \in 1 .. Len(ids) : i # j => ids[i] # ids[j]
        /\ \A i \in 1 .. Len(ids) : objs[i] = DictGet(f.filed, ids[i])

\* C21: in every field get_idetifiers and get_objects have the length
\* lenght, no identifier occurs twice and the i-th value is the value of the
\* i-th identifier; an add of an identifier the field holds keeps every
\* identifier at its place and changes that value alone, an add of a new one
\* puts it at the end, a remove takes the identifier out and keeps the order
\* of the others, so that a remove and an add of it move it to the end
C21_AlignedInOrder ==
    [][/\ \A h \in Handles : \A i \in 1 .. Len(get_fileds(h)') : Aligned(get_fileds(h)[i])'
       /\ (res'.op \in {"add", "field.add", "field.remove"} /\ res'.kind = "ok") =>
            LET old == get_fileds(res'.h)[res'.idx]
                new == (get_fileds(res.h)[res.idx])'
                ids == get_idetifiers(old)
                at  == {i \in 1 .. Len(ids) : ids[i] = res'.key}
            IN  IF res'.op = "field.remove"
                THEN /\ get_idetifiers(new) = SelectSeq(ids, LAMBDA k : k # res'.key)
                     /\ get_objects(new) =
                           [i \in 1 .. Len(ids) - 1 |->
                              get_objects(old)[IF \E a \in at : a <= i THEN i + 1 ELSE i]]
                ELSE IF at # {}
                THEN /\ get_idetifiers(new) = ids
                     /\ get_objects(new) =
                           [i \in 1 .. Len(ids) |->
                              IF i \in at THEN res'.obj ELSE get_objects(old)[i]]
                ELSE /\ get_idetifiers(new) = Append(ids, res'.key)
                     /\ get_objects(new) = Append(get_objects(old), res'.obj)]_vars

\* the identifier 1, first in the field at create, after a remove and an
\* add of it: last, behind the identifier "1" added in between
C21_Witness ==
    /\ res.op \in {"add", "field.add"} /\ res.kind = "ok"
    /\ res.key = PyInt(1) /\ res.idx = 1 /\ calls = 3
    /\ Len(get_fileds(res.h)) = 2
    /\ get_fileds(res.h)[2].name = "products"
    /\ get_idetifiers(get_fileds(res.h)[1]) = <<PyStr("1"), PyInt(1)>>
    /\ get_objects(get_fileds(res.h)[1]) = <<PyStr("Bob"), PyStr("Bob")>>

C23_PathConsistency ==
    [][/\ (res'.op \in WritingOps \cup {"connect"} /\ res'.kind = "ok") =>
            Load(files'[FileOf(res'.name)]).name = res'.name
       /\ \A h \in Handles :
            stores'[h].name = stores[h].name /\ stores'[h].pin = stores[h].pin
       /\ (res'.op = "connect" /\ res'.kind = "ok") => stores'[res'.h].name = res'.name
       /\ res'.op = "pool" =>
            /\ res'.name = stores[res'.h].name
            /\ \A p \in DOMAIN files \ {FileOf(res'.name)} : files'[p] = files[p]]_vars
====
